---- MODULE Spec2Model ----
(***************************************************************************)
(* A model of webqlrc: the gateway between a game server's RCON control    *)
(* socket (ZeroMQ) and browser consoles (WebSocket).                       *)
(*                                                                         *)
(*   rcon/rcon.go     StartRcon, monitorSockets (the poll loop), the two   *)
(*                    dispatchers readZmq*SocketMsg, the outbound sender   *)
(*                    ListenForMessagesFromWeb / doRconAction              *)
(*   bridge/bridge.go the router PassMessages and its four unbuffered      *)
(*                    channels                                             *)
(*   web/web.go       serveWs, readWebSocket, writeWebSocket               *)
(*                                                                         *)
(* Every goroutine is a process with a program counter.  A send on an      *)
(* unbuffered channel is one step taken jointly by the sender, which sits  *)
(* at its send, and the receiver, which sits at its receive.  Payloads are *)
(* strings.  Sequences that only record what happened (what was received,  *)
(* written, sent) are history variables: no action reads them, except to   *)
(* bound the number of inputs the environment offers.                      *)
(***************************************************************************)
EXTENDS Naturals, Sequences, FiniteSets, TLC

\* ---------------------------------------------------------------- bounds
\* MaxIn: the inputs the environment offers in all (frames the control
\* socket delivers, monitor events, frames the browsers send).
\* MaxConn: the connections the web server is asked to upgrade.
MaxIn == 2
MaxConn == 2
\* MaxOffer: the inputs the environment offers in the runs of BackSpec, which
\* have one browser at most and so room for more inputs.
MaxOffer == 5
\* MaxPong: the pong-timeouts, in seconds, the web configuration is drawn from
\* in the runs of TimeSpec.  MaxTime: how far the clock of those runs ticks.
MaxPong == 2
MaxTime == 2

\* config.go's default for WebPongTimeout, in seconds.
defaultWebPongTimeout == 60

\* ---------------------------------------------------------------- inputs
Conns == 1..MaxConn

\* What the k-th Recv on the control socket may return: an empty frame or a
\* text.  The texts differ, so that a history shows their order.
CtlText(k) == "players: " \o ToString(k)
CtlFrames(k) == {"", CtlText(k)}
CtlTexts == {CtlText(k) : k \in 1..MaxOffer}

\* What the k-th RecvEvent on the monitor socket returns: the record
\* (event, address, value).
MonEvent(k) ==
  <<IF k % 2 = 1 THEN "EVENT_CONNECTED" ELSE "EVENT_DISCONNECTED",
    "tcp://127.0.0.1:28960", k>>

\* The k-th text frame the read loop of handler h reads from its peer.  The
\* sets differ by handler, so that a payload names the loop that read it.
WebFrame(h, k) == "say hello " \o ToString(k) \o " #" \o ToString(h)
WebFrames(h) == {WebFrame(h, k) : k \in 1..MaxOffer}

NoMsg == ""

VARIABLES
  mpc,       \* main: "rcon" (in StartRcon), "web" (about to start the web server), "serve"
  setup,     \* StartRcon's outcome: "pending", "ok", "failed"
  reg,       \* openQlConnection's Send("register"): "idle", "send" (inside it), "done"
  cfgPong,   \* cfg.Web.WebPongTimeout, in seconds; 0 before web.Start has read it
  crashed,   \* the process was aborted by the socket library
  bpc,       \* PassMessages: "select", "sendWeb" (at OutToWeb <- twmsg), "sendRcon"
  bmsg,      \* the message PassMessages holds
  ppc,       \* monitorSockets: "off", "poll", "recvRcon", "sendRcon", "recvMon", "sendMon"
  pmon,      \* the monitor socket is still to be handled in this poll iteration
  pmsg,      \* the message monitorSockets holds
  plog,      \* the sockets whose receive error this poll iteration has logged
  dpc,       \* dispatchers, by socket: "off", "recv", "send"
  dmsg,      \* the message each dispatcher holds
  spc,       \* ListenForMessagesFromWeb: "off", "recv", "lock", "send"
  smsg,      \* the message the outbound sender holds
  mut,       \* the control socket's mutex: "free" or its holder
  wsconn,    \* web.go's package variable: the connection last stored, 0 for nil
  hpc,       \* serveWs handlers: "idle", "failed", "stored", "wstarted", "called"
  rpc,       \* read loops, by handler: "off", "read", "send", "done"
  rconn,     \* the connection each read loop works on
  rmsg,      \* the frame each read loop holds
  wpc,       \* write loops, by handler: "off", "select", "write", "done"
  wconn,     \* the connection each write loop works on
  wmsg,      \* the message each write loop holds
  period,    \* by handler: the period of its write loop's pingTicker, in seconds
  ticking,   \* the handlers whose pingTicker runs
  closed,    \* by connection: Close was called on it
  expired,   \* by connection: its read deadline has passed
  now,       \* the clock, in seconds
  deadline,  \* by connection: its read deadline, 0 when none was set
  pongAt,    \* history, by connection: the time of the last pong handled, if any
  ctlRecvd,  \* history: frames Recv returned on the control socket
  monRecvd,  \* history: event records RecvEvent returned
  inW,       \* history: payloads PassMessages accepted from RconToWeb
  outW,      \* history: payloads handed over on OutToWeb
  inR,       \* history: payloads PassMessages accepted from WebToRcon
  outR,      \* history: payloads handed over on OutToRcon
  sent,      \* history: payloads of the Send calls on the control socket
  readBy,    \* history, by handler: frames its read loop read
  written    \* history, by connection: text frames written to it

vars == <<mpc, setup, reg, cfgPong, crashed, bpc, bmsg, ppc, pmon, pmsg, plog,
          dpc, dmsg, spc, smsg, mut, wsconn, hpc, rpc, rconn, rmsg, wpc, wconn,
          wmsg, period, ticking, closed, expired, now, deadline, pongAt,
          ctlRecvd, monRecvd, inW, outW, inR, outR, sent, readBy, written>>

mainVars == <<mpc, setup, reg, cfgPong>>
routerVars == <<bpc, bmsg>>
pollVars == <<ppc, pmon, pmsg, plog>>
dispVars == <<dpc, dmsg>>
senderVars == <<spc, smsg, mut>>
handlerVars == <<wsconn, hpc>>
readVars == <<rpc, rconn, rmsg>>
writeVars == <<wpc, wconn, wmsg, period, ticking>>
connVars == <<closed, expired, now, deadline, pongAt>>
rconHist == <<ctlRecvd, monRecvd>>
webHist == <<readBy, written>>
routeHistW == <<inW, outW>>
routeHistR == <<inR, outR>>

Sockets == {"rcon", "mon"}

\* ---------------------------------------------------------------- helpers
\* fmt.Sprintf("%s %s %d", ev, adr, val)
FormatEvent(e) == e[1] \o " " \o e[2] \o " " \o ToString(e[3])

RECURSIVE SelectIn(_, _)
\* The subsequence of s of the payloads that are in set S.
SelectIn(s, S) ==
  IF s = <<>> THEN <<>>
  ELSE IF Head(s) \in S THEN <<Head(s)>> \o SelectIn(Tail(s), S)
  ELSE SelectIn(Tail(s), S)

IsPrefix(s, t) == Len(s) <= Len(t) /\ SubSeq(t, 1, Len(s)) = s

Alive == ~crashed

\* Frames read so far, over all read loops.
RECURSIVE TotalRead(_)
TotalRead(H) ==
  IF H = {} THEN 0
  ELSE LET h == CHOOSE x \in H : TRUE IN Len(readBy[h]) + TotalRead(H \ {h})

\* Inputs taken from the environment so far.
Inputs == Len(ctlRecvd) + Len(monRecvd) + TotalRead(Conns)

\* ---------------------------------------------------------------- Init
Init ==
  /\ mpc = "rcon" /\ setup = "pending" /\ reg = "idle" /\ crashed = FALSE
  /\ cfgPong = 0
  /\ bpc = "select" /\ bmsg = NoMsg
  /\ ppc = "off" /\ pmon = FALSE /\ pmsg = NoMsg /\ plog = {}
  /\ dpc = [k \in Sockets |-> "off"] /\ dmsg = [k \in Sockets |-> NoMsg]
  /\ spc = "off" /\ smsg = NoMsg /\ mut = "free"
  /\ wsconn = 0
  /\ hpc = [h \in Conns |-> "idle"]
  /\ rpc = [h \in Conns |-> "off"] /\ rconn = [h \in Conns |-> 0]
  /\ rmsg = [h \in Conns |-> NoMsg]
  /\ wpc = [h \in Conns |-> "off"] /\ wconn = [h \in Conns |-> 0]
  /\ wmsg = [h \in Conns |-> NoMsg]
  /\ period = [h \in Conns |-> 0] /\ ticking = {}
  /\ closed = [c \in Conns |-> FALSE] /\ expired = [c \in Conns |-> FALSE]
  /\ now = 0 /\ deadline = [c \in Conns |-> 0]
  /\ pongAt = [c \in Conns |-> <<>>]
  /\ ctlRecvd = <<>> /\ monRecvd = <<>>
  /\ inW = <<>> /\ outW = <<>> /\ inR = <<>> /\ outR = <<>>
  /\ sent = <<>>
  /\ readBy = [h \in Conns |-> <<>>]
  /\ written = [c \in Conns |-> <<>>]

\* ---------------------------------------------------------------- main
\* Faulty variant of OpenQlConnection: the connection is opened in a task of
\* its own, and StartRcon launches the outbound sender and the poll loop
\* without waiting for the "register" Send to return.
OpenQlConnection_Async ==
  /\ Alive /\ mpc = "rcon" /\ reg = "idle"
  /\ reg' = "send"
  /\ setup' = "ok" /\ mpc' = "web"
  /\ spc' = "recv"
  /\ ppc' = "poll"
  /\ dpc' = [k \in Sockets |-> "recv"]
  /\ UNCHANGED <<cfgPong, crashed, routerVars, pmon, pmsg, plog, dmsg, smsg,
                 mut, handlerVars, readVars, writeVars, connVars, rconHist,
                 routeHistW, routeHistR, sent, webHist>>

\* StartRcon, initSockets: the context, the two sockets, the monitor wiring
\* and the two Connect calls succeeded; openQlConnection enters
\* s.socket.Send("register", 0).
OpenQlConnection ==
  /\ Alive /\ mpc = "rcon" /\ reg = "idle"
  /\ reg' = "send"
  /\ UNCHANGED <<mpc, setup, cfgPong, crashed, routerVars, pollVars, dispVars,
                 senderVars, handlerVars, readVars, writeVars, connVars,
                 rconHist, routeHistW, routeHistR, sent, webHist>>

\* Faulty variant of StartRconOk: openQlConnection returns without having
\* sent "register".
StartRconOk_NoRegister ==
  /\ Alive /\ mpc = "rcon" /\ reg = "send"
  /\ reg' = "done"
  /\ setup' = "ok" /\ mpc' = "web"
  /\ spc' = "recv"
  /\ ppc' = "poll"
  /\ dpc' = [k \in Sockets |-> "recv"]
  /\ UNCHANGED <<cfgPong, crashed, routerVars, pmon, pmsg, plog, dmsg, smsg,
                 mut, handlerVars, readVars, writeVars, connVars, rconHist,
                 routeHistW, routeHistR, sent, webHist>>

\* StartRcon: the "register" Send returned and initSockets with it; the
\* outbound sender and the poll loop (which starts its two dispatchers) are
\* launched.
StartRconOk ==
  /\ Alive /\ mpc = "rcon" /\ reg = "send"
  /\ reg' = "done"
  /\ setup' = "ok" /\ mpc' = "web"
  /\ sent' = Append(sent, "register")
  /\ spc' = "recv"
  /\ ppc' = "poll"
  /\ dpc' = [k \in Sockets |-> "recv"]
  /\ UNCHANGED <<cfgPong, crashed, routerVars, pmon, pmsg, plog, dmsg, smsg,
                 mut, handlerVars, readVars, writeVars, connVars, rconHist,
                 routeHistW, routeHistR, webHist>>

\* StartRcon returns an error (the configuration, the context, a socket, the
\* monitor wiring or a Connect failed): nothing of the RCON side is started.
\* main drops the error and goes on to the web server.
StartRconFail ==
  /\ Alive /\ mpc = "rcon" /\ reg = "idle"
  /\ setup' = "failed" /\ mpc' = "web"
  /\ UNCHANGED <<reg, cfgPong, crashed, routerVars, pollVars, dispVars,
                 senderVars, handlerVars, readVars, writeVars, connVars,
                 rconHist, routeHistW, routeHistR, sent, webHist>>

\* web.Start: the web configuration is read, its pong-timeout being p, and
\* the listener is up.
StartWeb(p) ==
  /\ Alive /\ mpc = "web"
  /\ cfgPong' = p
  /\ mpc' = "serve"
  /\ UNCHANGED <<setup, reg, crashed, routerVars, pollVars, dispVars,
                 senderVars, handlerVars, readVars, writeVars, connVars,
                 rconHist, routeHistW, routeHistR, sent, webHist>>

\* ---------------------------------------------------------------- poll loop
\* What the loop over the ready sockets does after the control socket's case.
AfterRcon == IF pmon THEN "recvMon" ELSE "poll"

\* poller.Poll returns the ready sockets, the control socket first; the loop
\* enters Recv (RecvEvent) of the first one.  A poll that times out with
\* nothing ready changes nothing.
Poll(r, m) ==
  /\ Alive /\ ppc = "poll"
  /\ r \/ m
  /\ ppc' = IF r THEN "recvRcon" ELSE "recvMon"
  /\ pmon' = (r /\ m)
  /\ plog' = {}
  /\ UNCHANGED <<mainVars, crashed, routerVars, pmsg, dispVars, senderVars,
                 handlerVars, readVars, writeVars, connVars, rconHist,
                 routeHistW, routeHistR, sent, webHist>>

\* Faulty variant of RecvRconErr: the error ends the iteration over the ready
\* sockets (a break where the code has continue).
RecvRconErr_Break ==
  /\ Alive /\ ppc = "recvRcon"
  /\ ppc' = "poll" /\ pmon' = FALSE
  /\ plog' = plog \cup {"rcon"}
  /\ UNCHANGED <<mainVars, crashed, routerVars, pmsg, dispVars, senderVars,
                 handlerVars, readVars, writeVars, connVars, rconHist,
                 routeHistW, routeHistR, sent, webHist>>

\* z.Recv(0) fails: logged, continue with the next ready socket.
RecvRconErr ==
  /\ Alive /\ ppc = "recvRcon"
  /\ ppc' = AfterRcon /\ pmon' = FALSE
  /\ plog' = plog \cup {"rcon"}
  /\ UNCHANGED <<mainVars, crashed, routerVars, pmsg, dispVars, senderVars,
                 handlerVars, readVars, writeVars, connVars, rconHist,
                 routeHistW, routeHistR, sent, webHist>>

\* Faulty variant of RecvRcon: the frame goes to rconMsg.incoming without the
\* test of its length.
RecvRcon_ForwardsEmpty(f) ==
  /\ Alive /\ ppc = "recvRcon"
  /\ ctlRecvd' = Append(ctlRecvd, f)
  /\ ppc' = "sendRcon" /\ pmsg' = f /\ pmon' = pmon
  /\ UNCHANGED <<mainVars, crashed, routerVars, plog, dispVars, senderVars,
                 handlerVars, readVars, writeVars, connVars, monRecvd,
                 routeHistW, routeHistR, sent, webHist>>

\* z.Recv(0) returns frame f; a non-empty one goes to rconMsg.incoming.
RecvRcon(f) ==
  /\ Alive /\ ppc = "recvRcon"
  /\ ctlRecvd' = Append(ctlRecvd, f)
  /\ IF Len(f) # 0
       THEN ppc' = "sendRcon" /\ pmsg' = f /\ pmon' = pmon
       ELSE ppc' = AfterRcon /\ pmsg' = pmsg /\ pmon' = FALSE
  /\ UNCHANGED <<mainVars, crashed, routerVars, plog, dispVars, senderVars,
                 handlerVars, readVars, writeVars, connVars, monRecvd,
                 routeHistW, routeHistR, sent, webHist>>

\* Faulty variant of PollSendRcon: a send that does not block; the frame is
\* dropped when the dispatcher is not at its receive.
PollSendRcon_NonBlocking ==
  /\ Alive /\ ppc = "sendRcon"
  /\ IF dpc["rcon"] = "recv"
       THEN /\ dpc' = [dpc EXCEPT !["rcon"] = "send"]
            /\ dmsg' = [dmsg EXCEPT !["rcon"] = pmsg]
       ELSE UNCHANGED dispVars
  /\ ppc' = AfterRcon /\ pmon' = FALSE /\ pmsg' = NoMsg
  /\ UNCHANGED <<mainVars, crashed, routerVars, plog, senderVars, handlerVars,
                 readVars, writeVars, connVars, rconHist, routeHistW,
                 routeHistR, sent, webHist>>

\* rconMsg.incoming <- msg, taken by readZmqRconSocketMsg's range loop.
PollSendRcon ==
  /\ Alive /\ ppc = "sendRcon" /\ dpc["rcon"] = "recv"
  /\ dpc' = [dpc EXCEPT !["rcon"] = "send"]
  /\ dmsg' = [dmsg EXCEPT !["rcon"] = pmsg]
  /\ ppc' = AfterRcon /\ pmon' = FALSE /\ pmsg' = NoMsg
  /\ UNCHANGED <<mainVars, crashed, routerVars, plog, senderVars, handlerVars,
                 readVars, writeVars, connVars, rconHist, routeHistW,
                 routeHistR, sent, webHist>>

\* z.RecvEvent(0) fails: logged, continue.
RecvMonErr ==
  /\ Alive /\ ppc = "recvMon"
  /\ ppc' = "poll"
  /\ plog' = plog \cup {"mon"}
  /\ UNCHANGED <<mainVars, crashed, routerVars, pmon, pmsg, dispVars,
                 senderVars, handlerVars, readVars, writeVars, connVars,
                 rconHist, routeHistW, routeHistR, sent, webHist>>

\* Faulty variant of RecvMon: the text is built without the event's value.
RecvMon_NoValue(e) ==
  /\ Alive /\ ppc = "recvMon"
  /\ monRecvd' = Append(monRecvd, e)
  /\ ppc' = "sendMon" /\ pmsg' = e[1] \o " " \o e[2]
  /\ UNCHANGED <<mainVars, crashed, routerVars, pmon, plog, dispVars,
                 senderVars, handlerVars, readVars, writeVars, connVars,
                 ctlRecvd, routeHistW, routeHistR, sent, webHist>>

\* z.RecvEvent(0) returns record e; its text goes to monMsg.incoming.
RecvMon(e) ==
  /\ Alive /\ ppc = "recvMon"
  /\ monRecvd' = Append(monRecvd, e)
  /\ ppc' = "sendMon" /\ pmsg' = FormatEvent(e)
  /\ UNCHANGED <<mainVars, crashed, routerVars, pmon, plog, dispVars,
                 senderVars, handlerVars, readVars, writeVars, connVars,
                 ctlRecvd, routeHistW, routeHistR, sent, webHist>>

\* Faulty variant of PollSendMon: the text is put into a buffer that a full
\* dispatcher makes overflow; the text is lost and the loop goes on.
PollSendMon_NonBlocking ==
  /\ Alive /\ ppc = "sendMon"
  /\ IF dpc["mon"] = "recv"
       THEN /\ dpc' = [dpc EXCEPT !["mon"] = "send"]
            /\ dmsg' = [dmsg EXCEPT !["mon"] = pmsg]
       ELSE UNCHANGED dispVars
  /\ ppc' = "poll" /\ pmsg' = NoMsg
  /\ UNCHANGED <<mainVars, crashed, routerVars, pmon, plog, senderVars,
                 handlerVars, readVars, writeVars, connVars, rconHist,
                 routeHistW, routeHistR, sent, webHist>>

\* monMsg.incoming <- text, taken by readZmqMonitorSocketMsg's range loop.
PollSendMon ==
  /\ Alive /\ ppc = "sendMon" /\ dpc["mon"] = "recv"
  /\ dpc' = [dpc EXCEPT !["mon"] = "send"]
  /\ dmsg' = [dmsg EXCEPT !["mon"] = pmsg]
  /\ ppc' = "poll" /\ pmsg' = NoMsg
  /\ UNCHANGED <<mainVars, crashed, routerVars, pmon, plog, senderVars,
                 handlerVars, readVars, writeVars, connVars, rconHist,
                 routeHistW, routeHistR, sent, webHist>>

\* ---------------------------------------------------------------- router
\* Faulty variant of RouterRecvRconToWeb: the router takes a message from
\* RconToWeb while it still holds an undelivered one.
RouterRecvRconToWeb_Overwrite(k) ==
  /\ Alive /\ bpc \in {"select", "sendWeb"} /\ dpc[k] = "send"
  /\ bpc' = "sendWeb" /\ bmsg' = dmsg[k]
  /\ inW' = Append(inW, dmsg[k])
  /\ dpc' = [dpc EXCEPT ![k] = "recv"]
  /\ dmsg' = [dmsg EXCEPT ![k] = NoMsg]
  /\ UNCHANGED <<mainVars, crashed, pollVars, senderVars, handlerVars,
                 readVars, writeVars, connVars, rconHist, outW, routeHistR,
                 sent, webHist>>

\* case twmsg := <-b.RconToWeb, fed by dispatcher k's
\* bridge.MessageBridge.RconToWeb <- []byte(m).
RouterRecvRconToWeb(k) ==
  /\ Alive /\ bpc = "select" /\ dpc[k] = "send"
  /\ bpc' = "sendWeb" /\ bmsg' = dmsg[k]
  /\ inW' = Append(inW, dmsg[k])
  /\ dpc' = [dpc EXCEPT ![k] = "recv"]
  /\ dmsg' = [dmsg EXCEPT ![k] = NoMsg]
  /\ UNCHANGED <<mainVars, crashed, pollVars, senderVars, handlerVars,
                 readVars, writeVars, connVars, rconHist, outW, routeHistR,
                 sent, webHist>>

\* Faulty variant of RouterRecvWebToRcon: the router takes a frame from
\* WebToRcon while it still holds an undelivered one, which is overwritten.
RouterRecvWebToRcon_Overwrite(h) ==
  /\ Alive /\ bpc \in {"select", "sendRcon"} /\ rpc[h] = "send"
  /\ bpc' = "sendRcon" /\ bmsg' = rmsg[h]
  /\ inR' = Append(inR, rmsg[h])
  /\ rpc' = [rpc EXCEPT ![h] = "read"]
  /\ rmsg' = [rmsg EXCEPT ![h] = NoMsg]
  /\ UNCHANGED <<mainVars, crashed, pollVars, dispVars, senderVars,
                 handlerVars, rconn, writeVars, connVars, rconHist,
                 routeHistW, outR, sent, webHist>>

\* Faulty variant of RouterRecvWebToRcon: the second case sends on the first
\* case's output, b.OutToWeb <- trmsg.
RouterRecvWebToRcon_Cross(h) ==
  /\ Alive /\ bpc = "select" /\ rpc[h] = "send"
  /\ bpc' = "sendWeb" /\ bmsg' = rmsg[h]
  /\ inR' = Append(inR, rmsg[h])
  /\ rpc' = [rpc EXCEPT ![h] = "read"]
  /\ rmsg' = [rmsg EXCEPT ![h] = NoMsg]
  /\ UNCHANGED <<mainVars, crashed, pollVars, dispVars, senderVars,
                 handlerVars, rconn, writeVars, connVars, rconHist,
                 routeHistW, outR, sent, webHist>>

\* case trmsg := <-b.WebToRcon, fed by read loop h's
\* bridge.MessageBridge.WebToRcon <- msg.
RouterRecvWebToRcon(h) ==
  /\ Alive /\ bpc = "select" /\ rpc[h] = "send"
  /\ bpc' = "sendRcon" /\ bmsg' = rmsg[h]
  /\ inR' = Append(inR, rmsg[h])
  /\ rpc' = [rpc EXCEPT ![h] = "read"]
  /\ rmsg' = [rmsg EXCEPT ![h] = NoMsg]
  /\ UNCHANGED <<mainVars, crashed, pollVars, dispVars, senderVars,
                 handlerVars, rconn, writeVars, connVars, rconHist,
                 routeHistW, outR, sent, webHist>>

\* ---------------------------------------------------------------- outbound sender
\* b.OutToRcon <- trmsg, taken by ListenForMessagesFromWeb's range loop,
\* which then calls doRconAction(string(m)).
SenderRecv ==
  /\ Alive /\ spc = "recv" /\ bpc = "sendRcon"
  /\ spc' = "lock" /\ smsg' = bmsg
  /\ outR' = Append(outR, bmsg)
  /\ bpc' = "select" /\ bmsg' = NoMsg
  /\ UNCHANGED <<mainVars, crashed, pollVars, dispVars, mut, handlerVars,
                 readVars, writeVars, connVars, rconHist, routeHistW, inR,
                 sent, webHist>>

\* doRconAction: rconsock.mut.Lock()
SenderLock ==
  /\ Alive /\ spc = "lock" /\ mut = "free"
  /\ mut' = "sender" /\ spc' = "send"
  /\ UNCHANGED <<mainVars, crashed, routerVars, pollVars, dispVars, smsg,
                 handlerVars, readVars, writeVars, connVars, rconHist,
                 routeHistW, routeHistR, sent, webHist>>

\* Faulty variant of SenderSend: the command is sent a second time.
SenderSend_Twice ==
  /\ Alive /\ spc = "send"
  /\ sent' = sent \o <<smsg, smsg>>
  /\ mut' = "free" /\ spc' = "recv" /\ smsg' = NoMsg
  /\ UNCHANGED <<mainVars, crashed, routerVars, pollVars, dispVars,
                 handlerVars, readVars, writeVars, connVars, rconHist,
                 routeHistW, routeHistR, webHist>>

\* doRconAction: rconsock.socket.Send(action, 0) returns, the deferred Unlock
\* runs.
SenderSend ==
  /\ Alive /\ spc = "send"
  /\ sent' = Append(sent, smsg)
  /\ mut' = "free" /\ spc' = "recv" /\ smsg' = NoMsg
  /\ UNCHANGED <<mainVars, crashed, routerVars, pollVars, dispVars,
                 handlerVars, readVars, writeVars, connVars, rconHist,
                 routeHistW, routeHistR, webHist>>

\* The poll loop is inside Recv and the sender inside Send on the same
\* ZeroMQ socket, which is not safe for concurrent use: among the outcomes is
\* that the library aborts the process.
RaceAbort ==
  /\ Alive /\ ppc = "recvRcon" /\ spc = "send"
  /\ crashed' = TRUE
  /\ UNCHANGED <<mainVars, routerVars, pollVars, dispVars, senderVars,
                 handlerVars, readVars, writeVars, connVars, rconHist,
                 routeHistW, routeHistR, sent, webHist>>

\* ---------------------------------------------------------------- serveWs
\* upgrader.Upgrade fails: logged, the handler returns.
UpgradeFail(h) ==
  /\ Alive /\ mpc = "serve" /\ hpc[h] = "idle"
  /\ \A g \in 1..(h - 1) : hpc[g] # "idle"
  /\ hpc' = [hpc EXCEPT ![h] = "failed"]
  /\ UNCHANGED <<mainVars, crashed, routerVars, pollVars, dispVars, senderVars,
                 wsconn, readVars, writeVars, connVars, rconHist, routeHistW,
                 routeHistR, sent, webHist>>

\* upgrader.Upgrade succeeds; wsconn = &webSocketConn{w: websock}.  Handler
\* h's connection is connection h; handlers are numbered in the order in which
\* their requests are upgraded.
Accept(h) ==
  /\ Alive /\ mpc = "serve" /\ hpc[h] = "idle"
  /\ \A g \in 1..(h - 1) : hpc[g] # "idle"
  /\ wsconn' = h
  /\ hpc' = [hpc EXCEPT ![h] = "stored"]
  /\ UNCHANGED <<mainVars, crashed, routerVars, pollVars, dispVars, senderVars,
                 readVars, writeVars, connVars, rconHist, routeHistW,
                 routeHistR, sent, webHist>>

\* intToDuration((cfg.Web.WebPongTimeout*9)/10, time.Second), in seconds.
TickerPeriod(p) == (p * 9) \div 10

\* go wsconn.writeWebSocket(): the receiver is what wsconn holds now.  The
\* write loop creates its pingTicker; time.NewTicker panics on a period that
\* is not positive, which ends the process.
GoWrite(h) ==
  /\ Alive /\ hpc[h] = "stored"
  /\ wconn' = [wconn EXCEPT ![h] = wsconn]
  /\ period' = [period EXCEPT ![h] = TickerPeriod(cfgPong)]
  /\ hpc' = [hpc EXCEPT ![h] = "wstarted"]
  /\ IF TickerPeriod(cfgPong) > 0
       THEN /\ wpc' = [wpc EXCEPT ![h] = "select"]
            /\ ticking' = ticking \cup {h}
            /\ UNCHANGED crashed
       ELSE /\ crashed' = TRUE
            /\ UNCHANGED <<wpc, ticking>>
  /\ UNCHANGED <<mainVars, routerVars, pollVars, dispVars, senderVars,
                 wsconn, readVars, wmsg, connVars, rconHist, routeHistW,
                 routeHistR, sent, webHist>>

\* wsconn.readWebSocket(): the receiver is what wsconn holds now.  The read
\* loop sets the read limit, the read deadline (now plus the pong-timeout) and
\* the pong handler.
CallRead(h) ==
  /\ Alive /\ hpc[h] = "wstarted"
  /\ rconn' = [rconn EXCEPT ![h] = wsconn]
  /\ rpc' = [rpc EXCEPT ![h] = "read"]
  /\ deadline' = [deadline EXCEPT ![wsconn] = now + cfgPong]
  /\ expired' = [expired EXCEPT ![wsconn] = FALSE]
  /\ hpc' = [hpc EXCEPT ![h] = "called"]
  /\ UNCHANGED <<mainVars, crashed, routerVars, pollVars, dispVars, senderVars,
                 wsconn, rmsg, writeVars, closed, now, pongAt, rconHist,
                 routeHistW, routeHistR, sent, webHist>>

\* ---------------------------------------------------------------- time
\* A second passes.
Tick ==
  /\ Alive
  /\ now' = now + 1
  /\ UNCHANGED <<mainVars, crashed, routerVars, pollVars, dispVars, senderVars,
                 handlerVars, readVars, writeVars, closed, expired, deadline,
                 pongAt, rconHist, routeHistW, routeHistR, sent, webHist>>

\* The pong-timeout passes with no pong handled on connection c, whose read
\* deadline a read loop has set: the clock is at that deadline, or past it.
DeadlinePasses(c) ==
  /\ Alive /\ ~closed[c] /\ ~expired[c]
  /\ \E h \in Conns : rpc[h] \in {"read", "send"} /\ rconn[h] = c
  /\ expired' = [expired EXCEPT ![c] = TRUE]
  /\ now' = IF now < deadline[c] THEN deadline[c] ELSE now
  /\ UNCHANGED <<mainVars, crashed, routerVars, pollVars, dispVars, senderVars,
                 handlerVars, readVars, writeVars, closed, deadline, pongAt,
                 rconHist, routeHistW, routeHistR, sent, webHist>>

\* ---------------------------------------------------------------- read loop
\* Inside c.w.ReadMessage() a pong arrives before the read deadline: the pong
\* handler sets the deadline to now plus the pong-timeout.
Pong(h) ==
  /\ Alive /\ rpc[h] = "read"
  /\ ~closed[rconn[h]] /\ ~expired[rconn[h]]
  /\ now < deadline[rconn[h]]
  /\ deadline' = [deadline EXCEPT ![rconn[h]] = now + cfgPong]
  /\ pongAt' = [pongAt EXCEPT ![rconn[h]] = <<now>>]
  /\ UNCHANGED <<mainVars, crashed, routerVars, pollVars, dispVars, senderVars,
                 handlerVars, readVars, writeVars, closed, expired, now,
                 rconHist, routeHistW, routeHistR, sent, webHist>>

\* Faulty variant of ReadFrame: a data frame refreshes the read deadline as a
\* pong does.
ReadFrame_RefreshesDeadline(h, f) ==
  /\ Alive /\ rpc[h] = "read"
  /\ ~closed[rconn[h]] /\ ~expired[rconn[h]]
  /\ rpc' = [rpc EXCEPT ![h] = "send"]
  /\ rmsg' = [rmsg EXCEPT ![h] = f]
  /\ readBy' = [readBy EXCEPT ![h] = Append(@, f)]
  /\ deadline' = [deadline EXCEPT ![rconn[h]] = now + cfgPong]
  /\ UNCHANGED <<mainVars, crashed, routerVars, pollVars, dispVars, senderVars,
                 handlerVars, rconn, writeVars, closed, expired, now, pongAt,
                 rconHist, routeHistW, routeHistR, sent, written>>

\* c.w.ReadMessage() returns text frame f.
ReadFrame(h, f) ==
  /\ Alive /\ rpc[h] = "read"
  /\ ~closed[rconn[h]] /\ ~expired[rconn[h]]
  /\ rpc' = [rpc EXCEPT ![h] = "send"]
  /\ rmsg' = [rmsg EXCEPT ![h] = f]
  /\ readBy' = [readBy EXCEPT ![h] = Append(@, f)]
  /\ UNCHANGED <<mainVars, crashed, routerVars, pollVars, dispVars, senderVars,
                 handlerVars, rconn, writeVars, connVars, rconHist,
                 routeHistW, routeHistR, sent, written>>

\* Faulty variant of ReadError: the deferred Close is called on the
\* connection the package variable wsconn holds, not on the loop's own.
ReadError_ClosesLatest(h) ==
  /\ Alive /\ rpc[h] = "read"
  /\ rpc' = [rpc EXCEPT ![h] = "done"]
  /\ closed' = [closed EXCEPT ![wsconn] = TRUE]
  /\ UNCHANGED <<mainVars, crashed, routerVars, pollVars, dispVars, senderVars,
                 handlerVars, rconn, rmsg, writeVars, expired, now, deadline,
                 pongAt, rconHist, routeHistW, routeHistR, sent, webHist>>

\* c.w.ReadMessage() returns an error (the connection was closed, the read
\* deadline passed, the peer went away, the frame was too big): the loop
\* breaks and the deferred c.w.Close() runs.
ReadError(h) ==
  /\ Alive /\ rpc[h] = "read"
  /\ rpc' = [rpc EXCEPT ![h] = "done"]
  /\ closed' = [closed EXCEPT ![rconn[h]] = TRUE]
  /\ UNCHANGED <<mainVars, crashed, routerVars, pollVars, dispVars, senderVars,
                 handlerVars, rconn, rmsg, writeVars, expired, now, deadline,
                 pongAt, rconHist, routeHistW, routeHistR, sent, webHist>>

\* ---------------------------------------------------------------- write loop
\* Faulty variant of WriteRecv: the write loop gets the message, and the
\* router's send does not complete: the message is offered again.
WriteRecv_KeepsMessage(h) ==
  /\ Alive /\ wpc[h] = "select" /\ bpc = "sendWeb"
  /\ wpc' = [wpc EXCEPT ![h] = "write"]
  /\ wmsg' = [wmsg EXCEPT ![h] = bmsg]
  /\ outW' = Append(outW, bmsg)
  /\ UNCHANGED <<mainVars, crashed, routerVars, pollVars, dispVars,
                 senderVars, handlerVars, readVars, wconn, period, ticking,
                 connVars, rconHist, inW, routeHistR, sent, webHist>>

\* case msg, ok := <-bridge.MessageBridge.OutToWeb, fed by the router's
\* b.OutToWeb <- twmsg.
WriteRecv(h) ==
  /\ Alive /\ wpc[h] = "select" /\ bpc = "sendWeb"
  /\ wpc' = [wpc EXCEPT ![h] = "write"]
  /\ wmsg' = [wmsg EXCEPT ![h] = bmsg]
  /\ outW' = Append(outW, bmsg)
  /\ bpc' = "select" /\ bmsg' = NoMsg
  /\ UNCHANGED <<mainVars, crashed, pollVars, dispVars, senderVars,
                 handlerVars, readVars, wconn, period, ticking, connVars,
                 rconHist, inW, routeHistR, sent, webHist>>

\* Faulty variant of WriteText: a frame that was written is written again.
WriteText_Twice(h, ok) ==
  /\ Alive /\ wpc[h] = "write"
  /\ ok => ~closed[wconn[h]]
  /\ wmsg' = [wmsg EXCEPT ![h] = NoMsg]
  /\ IF ok
       THEN /\ written' = [written EXCEPT
                            ![wconn[h]] = @ \o <<wmsg[h], wmsg[h]>>]
            /\ wpc' = [wpc EXCEPT ![h] = "select"]
            /\ UNCHANGED <<closed, ticking>>
       ELSE /\ wpc' = [wpc EXCEPT ![h] = "done"]
            /\ ticking' = ticking \ {h}
            /\ closed' = [closed EXCEPT ![wconn[h]] = TRUE]
            /\ UNCHANGED written
  /\ UNCHANGED <<mainVars, crashed, routerVars, pollVars, dispVars,
                 senderVars, handlerVars, readVars, wconn, period, expired,
                 now, deadline, pongAt, rconHist, routeHistW, routeHistR,
                 sent, readBy>>

\* Faulty variant of WriteText: the error of a failed write is dropped and
\* the loop goes back to its select.
WriteText_IgnoresError(h, ok) ==
  /\ Alive /\ wpc[h] = "write"
  /\ ok => ~closed[wconn[h]]
  /\ wmsg' = [wmsg EXCEPT ![h] = NoMsg]
  /\ wpc' = [wpc EXCEPT ![h] = "select"]
  /\ IF ok
       THEN written' = [written EXCEPT ![wconn[h]] = Append(@, wmsg[h])]
       ELSE UNCHANGED written
  /\ UNCHANGED <<mainVars, crashed, routerVars, pollVars, dispVars,
                 senderVars, handlerVars, readVars, wconn, period, ticking,
                 connVars, rconHist, routeHistW, routeHistR, sent, readBy>>

\* c.write(websocket.TextMessage, msg): it fails on a closed connection and
\* may fail on an open one (send timeout, peer gone); on failure the loop
\* returns, the ticker is stopped and the connection closed.
WriteText(h, ok) ==
  /\ Alive /\ wpc[h] = "write"
  /\ ok => ~closed[wconn[h]]
  /\ wmsg' = [wmsg EXCEPT ![h] = NoMsg]
  /\ IF ok
       THEN /\ written' = [written EXCEPT ![wconn[h]] = Append(@, wmsg[h])]
            /\ wpc' = [wpc EXCEPT ![h] = "select"]
            /\ UNCHANGED <<closed, ticking>>
       ELSE /\ wpc' = [wpc EXCEPT ![h] = "done"]
            /\ ticking' = ticking \ {h}
            /\ closed' = [closed EXCEPT ![wconn[h]] = TRUE]
            /\ UNCHANGED written
  /\ UNCHANGED <<mainVars, crashed, routerVars, pollVars, dispVars,
                 senderVars, handlerVars, readVars, wconn, period, expired,
                 now, deadline, pongAt, rconHist, routeHistW, routeHistR,
                 sent, readBy>>

\* case <-pingTicker.C: c.write(websocket.PingMessage, ...) fails: the loop
\* returns, the ticker is stopped and the connection closed.  (A ping that is
\* written changes nothing.)
PingFail(h) ==
  /\ Alive /\ wpc[h] = "select" /\ h \in ticking
  /\ wpc' = [wpc EXCEPT ![h] = "done"]
  /\ ticking' = ticking \ {h}
  /\ closed' = [closed EXCEPT ![wconn[h]] = TRUE]
  /\ UNCHANGED <<mainVars, crashed, routerVars, pollVars, dispVars, senderVars,
                 handlerVars, readVars, wconn, wmsg, period, expired, now,
                 deadline, pongAt, rconHist, routeHistW, routeHistR, sent,
                 webHist>>

\* ---------------------------------------------------------------- specification
\* The environment has n more inputs to offer out of max.
MayOffer(n, max) == Inputs + n <= max

\* The inputs a poll that finds these sockets ready will take.
Ready(r, m) == IF r /\ m THEN 2 ELSE 1

Next ==
  \/ OpenQlConnection
  \/ StartRconOk
  \/ StartRconFail
  \/ StartWeb(defaultWebPongTimeout)
  \/ \E r, m \in BOOLEAN : MayOffer(Ready(r, m), MaxIn) /\ Poll(r, m)
  \/ RecvRconErr
  \/ \E f \in CtlFrames(Len(ctlRecvd) + 1) : RecvRcon(f)
  \/ PollSendRcon
  \/ RecvMonErr
  \/ RecvMon(MonEvent(Len(monRecvd) + 1))
  \/ PollSendMon
  \/ \E k \in Sockets : RouterRecvRconToWeb(k)
  \/ \E h \in Conns : RouterRecvWebToRcon(h)
  \/ SenderRecv
  \/ SenderLock
  \/ SenderSend
  \/ RaceAbort
  \/ \E h \in Conns : UpgradeFail(h)
  \/ \E h \in Conns : Accept(h)
  \/ \E h \in Conns : GoWrite(h)
  \/ \E h \in Conns : CallRead(h)
  \/ \E c \in Conns : DeadlinePasses(c)
  \/ \E h \in Conns :
       MayOffer(1, MaxIn) /\ ReadFrame(h, WebFrame(h, Len(readBy[h]) + 1))
  \/ \E h \in Conns : ReadError(h)
  \/ \E h \in Conns : WriteRecv(h)
  \/ \E h \in Conns : \E ok \in BOOLEAN : WriteText(h, ok)
  \/ \E h \in Conns : PingFail(h)

Spec == Init /\ [][Next]_vars

\* One browser, no monitor events, no failures of the RCON side: the runs of
\* NextOne are runs of Next.
NextOne ==
  \/ OpenQlConnection
  \/ StartRconOk
  \/ StartWeb(defaultWebPongTimeout)
  \/ MayOffer(1, MaxIn) /\ Poll(TRUE, FALSE)
  \/ \E f \in CtlFrames(Len(ctlRecvd) + 1) : RecvRcon(f)
  \/ PollSendRcon
  \/ RouterRecvRconToWeb("rcon")
  \/ RouterRecvWebToRcon(1)
  \/ SenderRecv
  \/ SenderLock
  \/ SenderSend
  \/ Accept(1)
  \/ GoWrite(1)
  \/ CallRead(1)
  \/ DeadlinePasses(1)
  \/ MayOffer(1, MaxIn) /\ ReadFrame(1, WebFrame(1, Len(readBy[1]) + 1))
  \/ ReadError(1)
  \/ WriteRecv(1)
  \/ \E ok \in BOOLEAN : WriteText(1, ok)
  \/ PingFail(1)

\* What the Go scheduler and the libraries guarantee: a goroutine that can
\* take a step takes it; a channel operation whose partner waits completes;
\* Recv and Send return; ReadMessage returns its error once the connection is
\* closed or its deadline has passed; the ticker fires, and a ping written to
\* a closed connection fails.  Nothing is assumed of the environment: frames,
\* new connections, failures on an open connection and timeouts may or may
\* not come.
Fairness ==
  /\ WF_vars(OpenQlConnection)
  /\ WF_vars(StartRconOk)
  /\ WF_vars(StartWeb(defaultWebPongTimeout))
  /\ WF_vars(\E f \in CtlFrames(Len(ctlRecvd) + 1) : RecvRcon(f))
  /\ WF_vars(PollSendRcon)
  /\ WF_vars(PollSendMon)
  /\ \A k \in Sockets : WF_vars(RouterRecvRconToWeb(k))
  /\ WF_vars(SenderRecv)
  /\ WF_vars(SenderLock)
  /\ WF_vars(SenderSend)
  /\ \A h \in Conns :
       /\ WF_vars(RouterRecvWebToRcon(h))
       /\ WF_vars(GoWrite(h))
       /\ WF_vars(CallRead(h))
       /\ WF_vars(WriteRecv(h))
       /\ WF_vars(\E ok \in BOOLEAN : WriteText(h, ok))
       /\ WF_vars(ReadError(h) /\ (closed[rconn[h]] \/ expired[rconn[h]]))
       /\ WF_vars(PingFail(h) /\ closed[wconn[h]])

FairSpec == Init /\ [][NextOne]_vars /\ Fairness

\* The RCON side with its two sockets and one browser, the environment
\* offering up to MaxOffer inputs: the runs in which the slots between the
\* sockets and the client fill up.  The runs of NextBack are runs of the
\* program.
NextBack ==
  \/ OpenQlConnection
  \/ StartRconOk
  \/ StartWeb(defaultWebPongTimeout)
  \/ \E r, m \in BOOLEAN : MayOffer(Ready(r, m), MaxOffer) /\ Poll(r, m)
  \/ \E f \in CtlFrames(Len(ctlRecvd) + 1) : RecvRcon(f)
  \/ PollSendRcon
  \/ RecvMon(MonEvent(Len(monRecvd) + 1))
  \/ PollSendMon
  \/ \E k \in Sockets : RouterRecvRconToWeb(k)
  \/ RouterRecvWebToRcon(1)
  \/ SenderRecv
  \/ SenderLock
  \/ SenderSend
  \/ Accept(1)
  \/ GoWrite(1)
  \/ CallRead(1)
  \/ MayOffer(1, MaxOffer) /\ ReadFrame(1, WebFrame(1, Len(readBy[1]) + 1))
  \/ ReadError(1)
  \/ WriteRecv(1)
  \/ \E ok \in BOOLEAN : WriteText(1, ok)

BackSpec == Init /\ [][NextBack]_vars

\* The pong-timeouts the web configuration is drawn from.
PongTimeouts == 1..MaxPong

\* The web side with its clock: the configuration's pong-timeout is any of
\* PongTimeouts, seconds pass one by one up to MaxTime and pongs arrive; the
\* control socket delivers frames (no monitor events, no receive errors).
\* But for the configuration, the runs of NextTime are runs of the program.
NextTime ==
  \/ OpenQlConnection
  \/ StartRconOk
  \/ \E p \in PongTimeouts : StartWeb(p)
  \/ MayOffer(1, MaxIn) /\ Poll(TRUE, FALSE)
  \/ \E f \in CtlFrames(Len(ctlRecvd) + 1) : RecvRcon(f)
  \/ PollSendRcon
  \/ RouterRecvRconToWeb("rcon")
  \/ \E h \in Conns : RouterRecvWebToRcon(h)
  \/ SenderRecv
  \/ SenderLock
  \/ SenderSend
  \/ \E h \in Conns : Accept(h)
  \/ \E h \in Conns : GoWrite(h)
  \/ \E h \in Conns : CallRead(h)
  \/ now < MaxTime /\ Tick
  \/ \E h \in Conns : Pong(h)
  \/ \E c \in Conns : now >= deadline[c] /\ DeadlinePasses(c)
  \/ \E h \in Conns :
       MayOffer(1, MaxIn) /\ ReadFrame(h, WebFrame(h, Len(readBy[h]) + 1))
  \/ \E h \in Conns : ReadError(h)
  \/ \E h \in Conns : WriteRecv(h)
  \/ \E h \in Conns : \E ok \in BOOLEAN : WriteText(h, ok)
  \/ \E h \in Conns : PingFail(h)

TimeSpec == Init /\ [][NextTime]_vars

\* ---------------------------------------------------------------- properties
Range(s) == {s[i] : i \in DOMAIN s}

\* C1: in each direction of PassMessages the payloads handed to the output
\* channel are a prefix of the payloads accepted from the matching input
\* channel, at most one shorter, and equal to them once every accepted message
\* was taken; no payload accepted on one direction leaves on the other.
C1_RouterForwards ==
  /\ IsPrefix(outW, inW) /\ Len(inW) <= Len(outW) + 1
  /\ IsPrefix(outR, inR) /\ Len(inR) <= Len(outR) + 1
  /\ bpc # "sendWeb" => outW = inW
  /\ bpc # "sendRcon" => outR = inR
  /\ Range(outW) \cap Range(inR) = {}
  /\ Range(outR) \cap Range(inW) = {}

\* Two messages went through one direction, in order.
C1_Witness ==
  \/ Len(outW) >= 2 /\ outW = inW
  \/ Len(outR) >= 2 /\ outR = inR

\* No write loop is at its receive from OutToWeb or on its way back to it.
NoWebConsumer == \A h \in Conns : wpc[h] \in {"off", "done"}

\* C2: when from some point on no task receives from OutToWeb, while the RCON
\* side is up and its outbound sender keeps receiving, every frame a read loop
\* sends on WebToRcon is eventually handed over on OutToRcon.
C2_WebStallLeavesRconFlowing ==
  <>[](NoWebConsumer /\ setup = "ok")
    => \A h \in Conns : \A k \in 1..MaxIn :
         (rpc[h] = "send" /\ rmsg[h] = WebFrame(h, k))
           ~> (WebFrame(h, k) \in Range(outR))

\* C3 as stated: a send on WebToRcon completes only while a task is receiving
\* from OutToRcon.
C3_SendBlocksWithoutConsumer ==
  [][\A h \in Conns :
       (rpc[h] = "send" /\ rpc'[h] # "send") => spc = "recv"]_vars

\* C3, amended: a send on WebToRcon completes only by the router taking the
\* frame, which it does only while it holds no message; so while no task
\* receives from OutToRcon at most one send completes, the router holds that
\* frame and every further send stays blocked.  A hand-over on OutToRcon gives
\* the consumer the frame the router holds, and no frame accepted from
\* WebToRcon is lost: the frames accepted are those handed over, in order,
\* followed by the one held.
C3_SendBlocksBehindHeldFrame ==
  /\ [][\A h \in Conns :
          (rpc[h] = "send" /\ rpc'[h] # "send")
            => /\ bpc = "select" /\ bpc' = "sendRcon"
               /\ bmsg' = rmsg[h] /\ outR' = outR]_vars
  /\ [][outR' # outR
          => /\ spc = "recv" /\ bpc = "sendRcon"
             /\ smsg' = bmsg /\ outR' = Append(outR, bmsg)]_vars
  /\ [](inR = outR \o (IF bpc = "sendRcon" THEN <<bmsg>> ELSE <<>>))

\* No task receives from OutToRcon, the router holds one frame and a read loop
\* is blocked sending the next.
C3_Witness ==
  /\ spc # "recv" /\ bpc = "sendRcon"
  /\ \E h \in Conns : rpc[h] = "send"

\* C4: the outbound sender is never inside Send on the control socket while
\* the poll loop is inside Recv on it (what holding the socket's lock around
\* both would ensure).
C4_NoSendDuringRecv == ~(spc = "send" /\ ppc = "recvRcon")

\* The message a task holds at a blocked send, as a sequence.
Held(cond, m) == IF cond THEN <<m>> ELSE <<>>

\* The non-empty frames among those Recv returned, in order.
NonEmptyFrames(s) == SelectIn(s, {f \in Range(s) : Len(f) # 0})

\* The texts of the event records RecvEvent returned, in order.
EventTexts(s) == [i \in DOMAIN s |-> FormatEvent(s[i])]
MonTexts == {FormatEvent(MonEvent(k)) : k \in 1..MaxOffer}

\* The handlers whose request was upgraded.
Accepted == {h \in Conns : hpc[h] \in {"stored", "wstarted", "called"}}

\* C5: with one connected session whose writes succeed, the non-empty frames
\* received from the control socket are, in order and each exactly once, the
\* control-socket texts written to that client, followed by those still on
\* their way (in the write loop, the router, the dispatcher, the poll loop);
\* nothing else is written to the client than what the router accepted.
C5_ControlFramesWrittenOnce ==
  \A h \in Conns :
    (Accepted = {h} /\ wpc[h] # "done")
      => /\ NonEmptyFrames(ctlRecvd) =
              SelectIn(written[h], CtlTexts)
                \o Held(wpc[h] = "write" /\ wmsg[h] \in CtlTexts, wmsg[h])
                \o Held(bpc = "sendWeb" /\ bmsg \in CtlTexts, bmsg)
                \o Held(dpc["rcon"] = "send", dmsg["rcon"])
                \o Held(ppc = "sendRcon", pmsg)
         /\ Range(written[h]) \subseteq CtlTexts \cup MonTexts

\* One session, its writes succeeding, got a control-socket frame.
C5_Witness ==
  \E h \in Conns :
    /\ Accepted = {h} /\ wpc[h] = "select"
    /\ CtlText(1) \in Range(written[h])

C7_OrderPerSocket ==
  /\ NonEmptyFrames(ctlRecvd) =
       SelectIn(inW, CtlTexts)
         \o Held(dpc["rcon"] = "send", dmsg["rcon"])
         \o Held(ppc = "sendRcon", pmsg)
  /\ EventTexts(monRecvd) =
       SelectIn(inW, MonTexts)
         \o Held(dpc["mon"] = "send", dmsg["mon"])
         \o Held(ppc = "sendMon", pmsg)
  /\ \A S \in {CtlTexts, MonTexts} :
       /\ SelectIn(inW, S) =
            SelectIn(outW, S) \o Held(bpc = "sendWeb" /\ bmsg \in S, bmsg)
       /\ \A h \in Conns :
            Accepted = {h}
              => IsPrefix(SelectIn(written[h], S), SelectIn(outW, S))

\* Two frames of the control socket, or two monitor events, were written to a
\* single session.
C7_Witness ==
  \E h \in Conns :
    /\ Accepted = {h}
    /\ \/ Len(SelectIn(written[h], CtlTexts)) >= 2
       \/ Len(SelectIn(written[h], MonTexts)) >= 2

\* C8: once the read deadline of a connection has passed, the read loops on
\* it terminate and the connection is closed.
C8_DeadlineEndsReadLoop ==
  \A c \in Conns :
    expired[c]
      ~> (closed[c] /\ \A h \in Conns : rconn[h] = c => rpc[h] = "done")

\* C9: once one loop of a session has terminated, its other loop terminates
\* too.
C9_ClosingReachesClosed ==
  \A h \in Conns :
    (rpc[h] = "done" \/ wpc[h] = "done")
      ~> (rpc[h] = "done" /\ wpc[h] = "done")

\* What a step in which a loop of handler h ends on an error of connection c
\* leaves alone: main, the router, the poll loop, the dispatchers, the
\* outbound sender, the handlers (so that an idle one can still upgrade a
\* request), the loops of the other handlers, the other loop of h, and the
\* other connections.
ErrorFrame(h, c) ==
  /\ UNCHANGED <<mainVars, crashed, routerVars, pollVars, dispVars,
                 senderVars, handlerVars, rconn, wconn>>
  /\ \A g \in Conns \ {h} :
       /\ rpc'[g] = rpc[g] /\ rmsg'[g] = rmsg[g]
       /\ wpc'[g] = wpc[g] /\ wmsg'[g] = wmsg[g]
  /\ rpc'[h] = rpc[h] \/ wpc'[h] = wpc[h]
  /\ \A d \in Conns \ {c} : closed'[d] = closed[d] /\ expired'[d] = expired[d]

\* C10: a step in which a read or write loop ends is an error of that loop's
\* own connection and has no other effect; and a connection is closed only by
\* a loop that works on it and ends.
C10_ErrorTouchesOneSession ==
  /\ [][\A h \in Conns :
          /\ (rpc[h] # "done" /\ rpc'[h] = "done") => ErrorFrame(h, rconn[h])
          /\ (wpc[h] # "done" /\ wpc'[h] = "done") => ErrorFrame(h, wconn[h])]_vars
  /\ [][\A c \in Conns :
          (closed'[c] /\ ~closed[c])
            => \E h \in Conns :
                 \/ rconn[h] = c /\ rpc[h] # "done" /\ rpc'[h] = "done"
                 \/ wconn[h] = c /\ wpc[h] # "done" /\ wpc'[h] = "done"]_vars

\* One session has ended on an error, both of its loops have returned, and
\* another session's loops run on its open connection.
C10_Witness ==
  \E h, g \in Conns :
    /\ h # g
    /\ rconn[h] = h /\ wconn[h] = h /\ rpc[h] = "done" /\ wpc[h] = "done"
    /\ rconn[g] = g /\ wconn[g] = g /\ ~closed[g]
    /\ rpc[g] \in {"read", "send"} /\ wpc[g] \in {"select", "write"}

\* The handlers whose connection was accepted and whose two loops were started.
Started == {h \in Conns : hpc[h] = "called"}

\* C11: once a connection has been accepted and its loops started, a message
\* taken from OutToWeb is taken by a write loop of the newest such connection,
\* never by one that writes to an earlier connection.
C11_NewestConnectionTakesOver ==
  [][\A h \in Conns :
       (wpc[h] = "select" /\ wpc'[h] = "write")
         => \A g \in Started : wconn[h] >= g]_vars

\* C12: after a setup failure no step of the RCON side is taken (no
\* "register", no poll loop, no dispatcher, no outbound sender) and the web
\* side is not served.
C12_SetupFailureIsFatal ==
  setup = "failed"
    => /\ reg = "idle" /\ ppc = "off" /\ spc = "off"
       /\ \A k \in Sockets : dpc[k] = "off"
       /\ mpc # "serve"

\* C13: a step in which the poll loop logs a receive error emits nothing (no
\* frame is recorded as received, the loop holds no new message, nothing
\* reaches a dispatcher or the router), goes on to the monitor socket when
\* that one was ready in the same iteration and to the next poll otherwise;
\* and the poll loop, once started, is always at one of its steps.
C13_RecvErrorKeepsPolling ==
  /\ [][(plog' # plog /\ plog' # {})
          => /\ UNCHANGED <<rconHist, pmsg, dispVars, routerVars, routeHistW>>
             /\ ppc' = IF ppc = "recvRcon" /\ pmon THEN "recvMon" ELSE "poll"]_vars
  /\ [](reg = "done"
          => ppc \in {"poll", "recvRcon", "sendRcon", "recvMon", "sendMon"})

\* The control socket's receive failed and the monitor event that was ready
\* in the same poll iteration was received and is on its way.
C13_Witness == plog = {"rcon"} /\ ppc = "sendMon"

Count(c) == IF c THEN 1 ELSE 0

\* The messages held between an RCON socket and OutToWeb: by the poll loop,
\* the two dispatchers and the router, one each at most.
HeldToWeb ==
  Count(ppc \in {"sendRcon", "sendMon"})
    + Count(dpc["rcon"] = "send") + Count(dpc["mon"] = "send")
    + Count(bpc = "sendWeb")

RECURSIVE Sending(_)
\* The read loops blocked at their send on WebToRcon.
Sending(H) ==
  IF H = {} THEN 0
  ELSE LET h == CHOOSE x \in H : TRUE
       IN Count(rpc[h] = "send") + Sending(H \ {h})

\* The frames held between a web connection and the control socket: by the
\* read loops, the router and the outbound sender, one each at most.
HeldToRcon ==
  Sending(Conns) + Count(bpc = "sendRcon") + Count(spc \in {"lock", "send"})

\* C14: the messages received from the RCON sockets and not yet handed over
\* on OutToWeb are exactly those held by the poll loop, the dispatchers and
\* the router, one each at most, however many the sockets offer; likewise
\* the frames read from web connections and not yet sent are those held by
\* the read loops, the router and the sender.  The poll loop receives only
\* while it holds nothing, and it leaves a send only by the dispatcher taking
\* its message: with no task receiving from OutToWeb it stays blocked.
C14_BackpressureBoundsInFlight ==
  /\ [](Len(NonEmptyFrames(ctlRecvd)) + Len(monRecvd) = Len(outW) + HeldToWeb)
  /\ [](TotalRead(Conns) + Count(reg = "done") = Len(sent) + HeldToRcon)
  /\ [](\A h \in Conns : wpc[h] = "write" <=> wmsg[h] # NoMsg)
  /\ [][rconHist' # rconHist
          => ppc \in {"recvRcon", "recvMon"} /\ pmsg = NoMsg]_vars
  /\ [][(ppc \in {"sendRcon", "sendMon"} /\ ppc' # ppc)
          => \E k \in Sockets :
               dpc[k] = "recv" /\ dpc'[k] = "send" /\ dmsg'[k] = pmsg]_vars
  /\ [][(NoWebConsumer /\ HeldToWeb = 4) => rconHist' = rconHist]_vars

\* No task receives from OutToWeb, the router, both dispatchers and the poll
\* loop hold a message each, and the poll loop is blocked at its send.
C14_Witness ==
  /\ NoWebConsumer /\ HeldToWeb = 4
  /\ Len(ctlRecvd) + Len(monRecvd) >= 4

RECURSIVE CountIn(_, _)
\* How many times payload p occurs in sequence s.
CountIn(p, s) ==
  IF s = <<>> THEN 0 ELSE Count(Head(s) = p) + CountIn(p, Tail(s))

RECURSIVE WrittenTimes(_, _)
\* How many times payload p was written, over the connections C.
WrittenTimes(p, C) ==
  IF C = {} THEN 0
  ELSE LET c == CHOOSE x \in C : TRUE
       IN CountIn(p, written[c]) + WrittenTimes(p, C \ {c})

RECURSIVE HeldByWriters(_, _)
\* How many write loops among H hold payload p.
HeldByWriters(p, H) ==
  IF H = {} THEN 0
  ELSE LET h == CHOOSE x \in H : TRUE
       IN Count(wpc[h] = "write" /\ wmsg[h] = p) + HeldByWriters(p, H \ {h})

\* C15: a payload received from an RCON socket is, over all connections and
\* all tasks, written or held at most once; a frame read from a web
\* connection is sent or held at most once; and a payload whose write failed
\* is held by no task afterwards, so that nothing can write it again.
C15_AtMostOnce ==
  /\ [](\A p \in CtlTexts \cup MonTexts :
          WrittenTimes(p, Conns) + HeldByWriters(p, Conns)
            + Count(bpc = "sendWeb" /\ bmsg = p)
            + Count(\E k \in Sockets : dpc[k] = "send" /\ dmsg[k] = p)
            + Count(ppc \in {"sendRcon", "sendMon"} /\ pmsg = p) <= 1)
  /\ [](\A h \in Conns : \A p \in WebFrames(h) :
          CountIn(p, sent)
            + Count(spc \in {"lock", "send"} /\ smsg = p)
            + Count(bpc = "sendRcon" /\ bmsg = p)
            + Count(rpc[h] = "send" /\ rmsg[h] = p) <= 1)
  /\ [][\A h \in Conns :
          (wpc[h] = "write" /\ wpc'[h] = "done")
            => /\ written' = written
               /\ \A g \in Conns : wmsg'[g] # wmsg[h]
               /\ bmsg' # wmsg[h] /\ pmsg' # wmsg[h]
               /\ \A k \in Sockets : dmsg'[k] # wmsg[h]]_vars

\* Two sessions are connected; one payload's write failed and it was written
\* nowhere, another payload was written.
C15_Witness ==
  /\ Cardinality(Accepted) = 2
  /\ \E p, q \in Range(outW) :
       /\ WrittenTimes(p, Conns) = 0 /\ HeldByWriters(p, Conns) = 0
       /\ WrittenTimes(q, Conns) = 1

\* C16: at most one task is inside a Send on the control socket, counting
\* openQlConnection's Send of "register" and the outbound sender's Send in
\* doRconAction; the outbound sender does not exist while "register" is
\* being sent.
C16_SendsMutuallyExclusive ==
  /\ Count(reg = "send") + Count(spc = "send") <= 1
  /\ reg = "send" => spc = "off"
  /\ spc # "off" => sent # <<>> /\ Head(sent) = "register"

\* The outbound sender is inside Send, after "register" was sent.
C16_Witness == spc = "send" /\ reg = "done" /\ Len(sent) >= 2

\* The text "<event> <address>" of an event record.
NameAndAddress(e) == e[1] \o " " \o e[2]

\* The text "<event> <address> <value>" of an event record.
NameAddressAndValue(e) == e[1] \o " " \o e[2] \o " " \o ToString(e[3])

\* C17 as stated: the text the poll loop forwards for an event record is
\* "<event> <address>" and nothing else.
C17_EventTextIsNameAndAddress ==
  ppc = "sendMon" => pmsg = NameAndAddress(monRecvd[Len(monRecvd)])

\* C17, amended: the text the poll loop forwards for an event record is
\* "<event> <address> <value>", the value in decimal, and that text is what
\* the dispatcher sends on RconToWeb and what the router accepts: the texts
\* accepted, then the one the dispatcher holds, then the one the poll loop
\* holds are the texts of the records received, in order.
C17_EventTextHasValue ==
  /\ ppc = "sendMon" => pmsg = NameAddressAndValue(monRecvd[Len(monRecvd)])
  /\ [i \in DOMAIN monRecvd |-> NameAddressAndValue(monRecvd[i])] =
       SelectIn(inW, Range(inW) \ CtlTexts)
         \o Held(dpc["mon"] = "send", dmsg["mon"])
         \o Held(ppc = "sendMon", pmsg)

\* The router accepted the text of a monitor event from RconToWeb.
C17_Witness ==
  /\ monRecvd # <<>>
  /\ NameAddressAndValue(monRecvd[1]) \in Range(inW)

\* C19: in each direction the router has accepted at most one message more
\* than it has handed over, and it accepts a message on a direction only when
\* it has handed over all it accepted on that direction.
C19_RouterHoldsOnePerDirection ==
  /\ [](Len(inW) = Len(outW) + Count(bpc = "sendWeb"))
  /\ [](Len(inR) = Len(outR) + Count(bpc = "sendRcon"))
  /\ [][inW' # inW => Len(inW) = Len(outW) /\ Len(inW') = Len(inW) + 1]_vars
  /\ [][inR' # inR => Len(inR) = Len(outR) /\ Len(inR') = Len(inR) + 1]_vars

\* The router holds an undelivered message while further input waits on the
\* same direction.
C19_Witness ==
  \/ bpc = "sendWeb" /\ \E k \in Sockets : dpc[k] = "send"
  \/ bpc = "sendRcon" /\ \E h \in Conns : rpc[h] = "send"

\* C20: a step in which Recv returns an empty frame hands the poll loop no
\* message and one in which it returns a non-empty frame hands it that frame,
\* to be sent once; a step in which RecvEvent returns a record hands it that
\* record's text whatever the record holds; no empty payload is ever accepted
\* from RconToWeb, and the payloads accepted or held upstream are as many as
\* the non-empty frames and the event records received.
C20_EmptyFramesFiltered ==
  /\ [][ctlRecvd' # ctlRecvd
          => LET f == ctlRecvd'[Len(ctlRecvd')]
             IN IF Len(f) = 0
                  THEN ppc' \in {"poll", "recvMon"} /\ pmsg' = pmsg
                  ELSE ppc' = "sendRcon" /\ pmsg' = f]_vars
  /\ [][monRecvd' # monRecvd => ppc' = "sendMon" /\ Len(pmsg') # 0]_vars
  /\ [](\A i \in DOMAIN inW : Len(inW[i]) # 0)
  /\ [](Len(inW) + Count(dpc["rcon"] = "send") + Count(dpc["mon"] = "send")
          + Count(ppc \in {"sendRcon", "sendMon"})
        = Len(ctlRecvd) - CountIn("", ctlRecvd) + Len(monRecvd))

\* An empty frame was received and dropped, and the frame received after it
\* was accepted from RconToWeb.
C20_Witness ==
  /\ Len(ctlRecvd) >= 2 /\ ctlRecvd[1] = ""
  /\ ctlRecvd[2] \in Range(inW)

\* C21: "register" is the first frame sent on the control socket and is sent
\* once; nothing is sent before the control socket's connect has succeeded
\* and openQlConnection's Send has returned, and nothing at all when the
\* setup fails.
C21_RegisterSentFirstOnce ==
  /\ sent # <<>> => Head(sent) = "register" /\ CountIn("register", sent) = 1
  /\ sent # <<>> <=> reg = "done"
  /\ setup = "failed" => sent = <<>> /\ reg = "idle"

\* A command read from a browser was sent on the control socket, after
\* "register".
C21_Witness ==
  /\ Len(sent) >= 2
  /\ \E h \in Conns : sent[2] \in WebFrames(h)

\* C22: for a pong-timeout of at least 1 second the ticker period a write
\* loop computes is positive and smaller than the pong-timeout.
C22_TickerPeriodPositive ==
  \A h \in Conns :
    (hpc[h] \in {"wstarted", "called"} /\ cfgPong >= 1)
      => period[h] > 0 /\ period[h] < cfgPong

\* C23: a step that changes a connection's read deadline is the start of a
\* read loop on that connection or a pong handled by a read loop on it, and it
\* sets the deadline to the time of that step plus the pong-timeout; it is no
\* step that reads a data frame, forwards to WebToRcon, takes a message from
\* OutToWeb or writes.  Every pong handled moves the deadline.
C23_DeadlineMovedOnlyByPong ==
  /\ [][\A c \in Conns :
          deadline'[c] # deadline[c]
            => /\ deadline'[c] = now + cfgPong
               /\ \/ \E h \in Conns :
                       hpc[h] = "wstarted" /\ hpc'[h] = "called" /\ rconn'[h] = c
                  \/ /\ pongAt'[c] = <<now>>
                     /\ \E h \in Conns : rconn[h] = c /\ rpc[h] = "read"
                     /\ rpc' = rpc
               /\ UNCHANGED <<rmsg, wpc, wmsg, routerVars, readBy, written,
                              inR, outW>>]_vars
  /\ [][\A c \in Conns :
          pongAt'[c] # pongAt[c]
            => pongAt'[c] = <<now>> /\ deadline'[c] = now + cfgPong]_vars
  /\ [](\A c \in Conns :
          pongAt[c] # <<>> => deadline[c] >= pongAt[c][1] + cfgPong)

\* A pong moved a connection's deadline to the pong's time plus the
\* pong-timeout; frames were read from the connection and written to it, and
\* time has passed since.
C23_Witness ==
  \E c \in Conns :
    /\ pongAt[c] # <<>> /\ pongAt[c][1] > 0 /\ now > pongAt[c][1]
    /\ deadline[c] = pongAt[c][1] + cfgPong
    /\ written[c] # <<>>
    /\ \E h \in Conns : rconn[h] = c /\ readBy[h] # <<>>

\* C24: a write that fails ends the write loop in that step; a write loop
\* that has returned stays so, holds no message, its ticker is stopped and its
\* connection closed; a read loop that has returned has closed its
\* connection; a connection stays closed, and a loop that ends on a
\* connection the other loop has closed does not take the process down.
C24_FailedWriteEndsLoop ==
  /\ [][\A h \in Conns :
          (wpc[h] = "write" /\ wpc'[h] # "write" /\ written' = written)
            => wpc'[h] = "done"]_vars
  /\ [][\A h \in Conns :
          wpc[h] = "done" => wpc'[h] = "done" /\ wmsg'[h] = wmsg[h]]_vars
  /\ [](\A h \in Conns :
          wpc[h] = "done"
            => closed[wconn[h]] /\ h \notin ticking /\ wmsg[h] = NoMsg)
  /\ [](\A h \in Conns : wpc[h] \in {"select", "write"} <=> h \in ticking)
  /\ [](\A h \in Conns : rpc[h] = "done" => closed[rconn[h]])
  /\ [][\A c \in Conns : closed[c] => closed'[c]]_vars
  /\ [][\A h \in Conns :
          \/ rpc[h] # "done" /\ rpc'[h] = "done" /\ closed[rconn[h]]
          \/ wpc[h] # "done" /\ wpc'[h] = "done" /\ closed[wconn[h]]
          => crashed' = crashed /\ closed' = closed]_vars

\* A text write failed, both loops of a session have returned and have
\* closed the one connection they worked on.
C24_Witness ==
  /\ \E h \in Conns :
       wpc[h] = "done" /\ rpc[h] = "done" /\ wconn[h] = rconn[h]
  /\ \E p \in Range(outW) :
       WrittenTimes(p, Conns) = 0 /\ HeldByWriters(p, Conns) = 0

\* C25: the loops a handler starts work on the connection that handler
\* accepted.
C25_LoopsOnOwnConnection ==
  \A h \in Conns :
    /\ wpc[h] # "off" => wconn[h] = h
    /\ rpc[h] # "off" => rconn[h] = h

\* C26: a write loop takes a message from OutToWeb only while its connection
\* is not closed.
C26_ClosedSessionTakesNothing ==
  [][\A h \in Conns :
       (wpc[h] = "select" /\ wpc'[h] = "write") => ~closed[wconn[h]]]_vars

\* The outbound sender runs and a write loop runs.
Running == spc # "off" /\ \E h \in Conns : wpc[h] \in {"select", "write"}

\* C27: from a state in which the outbound sender and a write loop run, the
\* router does not stay at a send for ever, and neither do a dispatcher at
\* its send on RconToWeb or a read loop at its send on WebToRcon.
C27_NoCircularWait ==
  /\ (Running /\ bpc # "select") ~> (bpc = "select")
  /\ \A k \in Sockets : (Running /\ dpc[k] = "send") ~> (dpc[k] # "send")
  /\ \A h \in Conns : (Running /\ rpc[h] = "send") ~> (rpc[h] # "send")

====
